---- MODULE Spec2Model ----
(***************************************************************************)
(* State-machine model of the intern / ndio client SDK:                    *)
(*   - intern.remote.Remote        (config loading, cutout dispatch)       *)
(*   - intern.service.boss.ProjectService (per-version dispatch)           *)
(*   - the Boss group API as exercised by the integration tests            *)
(* Text is modelled as sequences of one-character strings so that the      *)
(* dict -> INI text -> ConfigParser path is computed, not assumed.         *)
(***************************************************************************)
EXTENDS Integers, Sequences, FiniteSets, TLC

(***************************************************************************)
(* Bounds of the model.                                                    *)
(***************************************************************************)
MaxStrLen == 2
MaxKeys == 1

(***************************************************************************)
(* Generic helpers on texts (sequences of characters).                     *)
(***************************************************************************)
None == [kind |-> "None"]

\* str.strip() whitespace: blanks and line ends
IsSpace(c) == c \in {" ", "\n"}

RECURSIVE LStrip(_)
LStrip(s) == IF s # <<>> /\ IsSpace(Head(s)) THEN LStrip(Tail(s)) ELSE s

RECURSIVE RStrip(_)
RStrip(s) ==
    IF s # <<>> /\ IsSpace(s[Len(s)]) THEN RStrip(SubSeq(s, 1, Len(s) - 1)) ELSE s

Strip(s) == LStrip(RStrip(s))

\* str.lower() on the alphabet of the model
LowerChar(c) == IF c = "B" THEN "b" ELSE c

Lower(s) == [i \in 1..Len(s) |-> LowerChar(s[i])]

\* index of the first element of s in set cs, 0 when there is none
RECURSIVE FindFrom(_, _, _)
FindFrom(s, cs, i) ==
    IF i > Len(s) THEN 0
    ELSE IF s[i] \in cs THEN i
    ELSE FindFrom(s, cs, i + 1)

\* index of the last occurrence of c in s, 0 when there is none
RECURSIVE RFindFrom(_, _, _)
RFindFrom(s, c, i) ==
    IF i < 1 THEN 0
    ELSE IF s[i] = c THEN i
    ELSE RFindFrom(s, c, i - 1)

\* str.splitlines-like iteration of a file object: the lines of a text
RECURSIVE SplitLines(_)
SplitLines(t) ==
    IF t = <<>> THEN <<>>
    ELSE LET n == FindFrom(t, {"\n"}, 1) IN
         IF n = 0 THEN <<t>>
         ELSE <<SubSeq(t, 1, n - 1)>> \o SplitLines(SubSeq(t, n + 1, Len(t)))

\* "\n".join(parts)
RECURSIVE JoinLines(_)
JoinLines(parts) ==
    IF parts = <<>> THEN <<>>
    ELSE IF Len(parts) = 1 THEN parts[1]
    ELSE parts[1] \o <<"\n">> \o JoinLines(Tail(parts))

\* decimal digits of a natural number, as str.format renders an int
DigitChar(d) == <<"0", "1", "2", "3", "4", "5", "6", "7", "8", "9">>[d + 1]

RECURSIVE IntToStr(_)
IntToStr(n) ==
    IF n < 10 THEN <<DigitChar(n)>>
    ELSE IntToStr(n \div 10) \o <<DigitChar(n % 10)>>

\* "{}".format(x) for the value kinds of the model
Format(x) ==
    IF x.kind = "int" THEN IntToStr(x.v)
    ELSE IF x.kind = "None" THEN <<"N", "o", "n", "e">>
    ELSE x.v

StrVal(s) == [kind |-> "str", v |-> s]
IntVal(n) == [kind |-> "int", v |-> n]

(***************************************************************************)
(* configparser.ConfigParser as used by Remote.load_config_file: default   *)
(* settings (delimiters = and :, full-line comments # and ;, strict,       *)
(* empty lines in values, lower-casing optionxform).                       *)
(* A parsed configuration is a record                                      *)
(*   [sections : sequence of section names,                                *)
(*    opts     : sequence of [sect, name, lines]]                          *)
(* where lines is the list of value lines of the option.                   *)
(***************************************************************************)
Delimiters == {"=", ":"}
CommentPrefixes == {"#", ";"}
DefaultSect == <<"Default">>

EmptyConfig == [sections |-> <<>>, opts |-> <<>>]

InSeq(x, s) == \E i \in 1..Len(s) : s[i] = x

HasOpt(cfg, sect, name) ==
    \E i \in 1..Len(cfg.opts) : cfg.opts[i].sect = sect /\ cfg.opts[i].name = name

OptIndex(cfg, sect, name) ==
    CHOOSE i \in 1..Len(cfg.opts) : cfg.opts[i].sect = sect /\ cfg.opts[i].name = name

\* ConfigParser.optionxform
optionxform(name) == Lower(name)

\* first_nonspace.start(): number of leading blanks of a line
IndentOf(line) == Len(line) - Len(LStrip(line))

\* reader state at the start of ConfigParser._read
ReadStart ==
    [cfg |-> EmptyConfig, insect |-> FALSE, sectname |-> <<>>, optname |-> <<>>,
     indent |-> 1000000, perr |-> FALSE, exc |-> ""]

\* one iteration of the loop of ConfigParser._read on one line
ReadLine(st, line) ==
    LET stripped == Strip(line)
        isComment == stripped # <<>> /\ stripped[1] \in CommentPrefixes
        value == IF isComment THEN <<>> ELSE stripped
        cur == IndentOf(line)
        rb == RFindFrom(value, "]", Len(value))
        isHeader == value # <<>> /\ value[1] = "[" /\ rb >= 3
        d == FindFrom(value, Delimiters, 1)
    IN
    IF st.exc # "" THEN st
    ELSE IF value = <<>> THEN
        \* empty line: part of the current value unless it is a comment
        IF ~isComment /\ st.insect /\ st.optname # <<>>
        THEN LET i == OptIndex(st.cfg, st.sectname, st.optname) IN
             [st EXCEPT !.cfg.opts[i].lines = Append(@, <<>>)]
        ELSE st
    ELSE IF st.insect /\ st.optname # <<>> /\ cur > st.indent THEN
        \* continuation line of the current option
        LET i == OptIndex(st.cfg, st.sectname, st.optname) IN
        [st EXCEPT !.cfg.opts[i].lines = Append(@, value)]
    ELSE IF isHeader THEN
        LET name == SubSeq(value, 2, rb - 1) IN
        IF InSeq(name, st.cfg.sections)
        THEN [st EXCEPT !.exc = "DuplicateSectionError"]
        ELSE [st EXCEPT !.cfg.sections = Append(@, name), !.insect = TRUE,
                        !.sectname = name, !.optname = <<>>, !.indent = cur]
    ELSE IF ~st.insect THEN [st EXCEPT !.exc = "MissingSectionHeaderError"]
    ELSE IF d = 0 THEN [st EXCEPT !.perr = TRUE, !.indent = cur]
    ELSE
        LET rawname == SubSeq(value, 1, d - 1)
            optname == optionxform(RStrip(rawname))
            optval == Strip(SubSeq(value, d + 1, Len(value)))
        IN
        IF HasOpt(st.cfg, st.sectname, optname)
        THEN [st EXCEPT !.exc = "DuplicateOptionError"]
        ELSE [st EXCEPT
                !.perr = st.perr \/ rawname = <<>>,
                !.optname = optname,
                !.indent = cur,
                !.cfg.opts = Append(@, [sect |-> st.sectname, name |-> optname,
                                        lines |-> <<optval>>])]

RECURSIVE ReadLines(_, _)
ReadLines(st, lines) ==
    IF lines = <<>> THEN st ELSE ReadLines(ReadLine(st, Head(lines)), Tail(lines))

\* ConfigParser.readfp(fp): the parsed configuration, or the exception raised
readfp(text) ==
    LET st == ReadLines(ReadStart, SplitLines(text)) IN
    IF st.exc # "" THEN [exc |-> st.exc, cfg |-> EmptyConfig]
    ELSE IF st.perr THEN [exc |-> "ParsingError", cfg |-> EmptyConfig]
    ELSE [exc |-> "", cfg |-> st.cfg]

\* ConfigParser.sections()
Sections(cfg) == cfg.sections

\* ConfigParser.options(section)
RECURSIVE OptNames(_, _)
OptNames(opts, sect) ==
    IF opts = <<>> THEN <<>>
    ELSE (IF Head(opts).sect = sect THEN <<Head(opts).name>> ELSE <<>>)
         \o OptNames(Tail(opts), sect)

Options(cfg, sect) == OptNames(cfg.opts, sect)

\* ConfigParser.get(section, option): value lines joined and right-stripped
\* (_join_multiline_values); the alphabet of the model has no "%", so
\* interpolation leaves the value as it is
ConfigGet(cfg, sect, option) ==
    IF ~InSeq(sect, cfg.sections) THEN [exc |-> "NoSectionError", v |-> <<>>]
    ELSE IF ~HasOpt(cfg, sect, optionxform(option))
         THEN [exc |-> "NoOptionError", v |-> <<>>]
    ELSE [exc |-> "",
          v |-> RStrip(JoinLines(cfg.opts[OptIndex(cfg, sect, optionxform(option))].lines))]

(***************************************************************************)
(* Remote.__init__ and Remote.load_config_file (remote.py).                *)
(***************************************************************************)
\* CONFIG_FILE = '~/.intern/intern.cfg', as path components
CONFIG_FILE == <<"~", ".intern", "intern.cfg">>

\* the home directory of the user running the program
HomeDir == <<"", "home", "user">>

\* os.path.expanduser
\* the path is left as written
expanduser_literal(path) == path

expanduser(path) ==
    IF path # <<>> /\ Head(path) = "~" THEN HomeDir \o Tail(path) ELSE path

\* the line "[Default]\n"
DefaultHeader == <<"[", "Default", "]", "\n">>

\* the loop of lines 63-64: one "key = value\n" line per key, in dict order
RECURSIVE DictToIni(_, _)
DictToIni(cfg_str, items) ==
    IF items = <<>> THEN cfg_str
    ELSE DictToIni(cfg_str \o Format(Head(items).key) \o <<" ", "=", " ">>
                           \o Format(Head(items).value) \o <<"\n">>,
                   Tail(items))

\* Remote.load_config_file
load_config_file(text) == readfp(text)

\* os.path.isfile on the file system fsys
isfile(fsys, path) == path \in DOMAIN fsys /\ fsys[path].kind = "file"

\* the attributes of a Remote before the configuration is read (lines 40-54)
NewRemote ==
    [constructed |-> FALSE, exc |-> "", _config |-> None,
     _volume |-> None, _metadata |-> None, _project |-> None, _object |-> None,
     checked |-> None, loads |-> 0]

\* Remote.__init__(cfg_file_or_dict) on file system fsys: the object built,
\* with the exception that left the constructor (exc), the path given to
\* os.path.isfile (checked) and the number of load_config_file calls (loads)
RemoteInit(fsys, arg) ==
    LET cfg_file_or_dict ==
            IF arg.kind = "None"
            THEN [kind |-> "path", v |-> expanduser(CONFIG_FILE)]
            ELSE arg
    IN
    IF cfg_file_or_dict.kind = "dict" THEN
        LET r == load_config_file(DictToIni(DefaultHeader, cfg_file_or_dict.items)) IN
        IF r.exc # "" THEN [NewRemote EXCEPT !.exc = r.exc, !.loads = 1]
        ELSE [NewRemote EXCEPT !.constructed = TRUE, !._config = r.cfg, !.loads = 1]
    ELSE IF isfile(fsys, cfg_file_or_dict.v) THEN
        LET r == load_config_file(fsys[cfg_file_or_dict.v].text) IN
        IF r.exc # ""
        THEN [NewRemote EXCEPT !.exc = r.exc, !.loads = 1,
                               !.checked = cfg_file_or_dict]
        ELSE [NewRemote EXCEPT !.constructed = TRUE, !._config = r.cfg,
                               !.loads = 1, !.checked = cfg_file_or_dict]
    ELSE [NewRemote EXCEPT !.exc = "IOError", !.checked = cfg_file_or_dict]

(***************************************************************************)
(* Remote.get_cutout / Remote.create_cutout (remote.py).                   *)
(* A caller's invocation is its sequence of positional arguments; an       *)
(* omitted optional argument is a shorter sequence.                        *)
(***************************************************************************)
Rng(lo, hi) == [kind |-> "range", lo |-> lo, hi |-> hi]
Resource(name, valid) == [kind |-> "resource", name |-> name, valid |-> valid]
Returned(v) == [exc |-> "", value |-> v]
Raised(e) == [exc |-> e, value |-> None]

\* resource.valid_volume()
valid_volume(resource) == resource.valid

\* the volume service object a concrete remote installs in _volume
VolumeService == [kind |-> "service", name |-> "volume"]
ProjectHandle == [kind |-> "service", name |-> "project"]

\* Remote.get_cutout(resource, resolution, x_range, y_range, z_range,
\* time_range=None) on object rmt, the volume service answering with reply:
\* the calls made on rmt._volume (each with the reply it got) and the outcome
\* seen by the caller
\* the resource is not validated
get_cutout_unchecked(rmt, args, reply) ==
    IF rmt._volume = None
    THEN [calls |-> <<>>, result |-> Raised("AttributeError")]
    ELSE [calls |-> <<[method |-> "get_cutout",
                       args |-> <<args[1], args[2], args[3], args[4], args[5],
                                  IF Len(args) >= 6 THEN args[6] ELSE None>>,
                       reply |-> reply]>>,
          result |-> reply]

get_cutout(rmt, args, reply) ==
    LET resource == args[1]
        resolution == args[2]
        x_range == args[3]
        y_range == args[4]
        z_range == args[5]
        time_range == IF Len(args) >= 6 THEN args[6] ELSE None
    IN
    IF ~valid_volume(resource)
    THEN [calls |-> <<>>, result |-> Raised("RuntimeError")]
    ELSE IF rmt._volume = None
    THEN [calls |-> <<>>, result |-> Raised("AttributeError")]
    ELSE [calls |-> <<[method |-> "get_cutout",
                       args |-> <<resource, resolution, x_range, y_range,
                                  z_range, time_range>>,
                       reply |-> reply]>>,
          result |-> reply]

\* Remote.create_cutout(resource, resolution, x_range, y_range, z_range,
\* data, time_range=None)
\* x_range and y_range change places in the call
create_cutout_swapped(rmt, args, reply) ==
    IF ~valid_volume(args[1])
    THEN [calls |-> <<>>, result |-> Raised("RuntimeError")]
    ELSE IF rmt._volume = None
    THEN [calls |-> <<>>, result |-> Raised("AttributeError")]
    ELSE [calls |-> <<[method |-> "create_cutout",
                       args |-> <<args[1], args[2], args[4], args[3], args[5],
                                  args[6],
                                  IF Len(args) >= 7 THEN args[7] ELSE None>>,
                       reply |-> reply]>>,
          result |-> reply]

create_cutout(rmt, args, reply) ==
    LET resource == args[1]
        resolution == args[2]
        x_range == args[3]
        y_range == args[4]
        z_range == args[5]
        data == args[6]
        time_range == IF Len(args) >= 7 THEN args[7] ELSE None
    IN
    IF ~valid_volume(resource)
    THEN [calls |-> <<>>, result |-> Raised("RuntimeError")]
    ELSE IF rmt._volume = None
    THEN [calls |-> <<>>, result |-> Raised("AttributeError")]
    ELSE [calls |-> <<[method |-> "create_cutout",
                       args |-> <<resource, resolution, x_range, y_range,
                                  z_range, data, time_range>>,
                       reply |-> reply]>>,
          result |-> reply]

(***************************************************************************)
(* ProjectService (service/boss/project.py): construction and the routing  *)
(* of every public method to the implementation of the chosen API version. *)
(* A routed call is a record [impl, method, args, kwargs, returns]:        *)
(* returns tells whether the method hands the implementation's value back  *)
(* to its caller (return self.service...) or drops it.                     *)
(***************************************************************************)
Name(s) == [kind |-> "name", v |-> s]
Bool(b) == [kind |-> "bool", v |-> b]
NoKwargs == <<>>

\* every version is served by the v0.7 implementation
_versions_any == [v \in {"v0.7", "v0.8", "latest"} |-> "ProjectService_0_7"]

\* self._versions
_versions == [v \in {"v0.7"} |-> "ProjectService_0_7"]

\* BossService.get_api_impl(version)
get_api_impl(versions, version) ==
    IF version \in DOMAIN versions
    THEN Returned(Name(versions[version]))
    ELSE Raised("KeyError")

\* the attributes BossService.__init__ gives a service
NewService ==
    [constructed |-> FALSE, base_url |-> None, service |-> None,
     url_prefix |-> Name("https://api.boss.io"), auth |-> Name("Token abc"),
     session |-> Name("session"), session_send_opts |-> Name("{}")]

\* ProjectService.__init__(base_url, version)
ProjectServiceInit(base_url, version) ==
    LET r == get_api_impl(_versions, version) IN
    IF r.exc # ""
    THEN [svc |-> [NewService EXCEPT !.base_url = base_url], result |-> r]
    ELSE [svc |-> [NewService EXCEPT !.base_url = base_url, !.service = r.value,
                                     !.constructed = TRUE],
          result |-> Returned(None)]

\* the trailing arguments of every routed call
Conn(svc) == <<svc.url_prefix, svc.auth, svc.session, svc.session_send_opts>>

Routed(svc, method, args, returns) ==
    [impl |-> svc.service, method |-> method, args |-> args \o Conn(svc),
     kwargs |-> NoKwargs, returns |-> returns]

\* positional argument i of a call, or the default None when it was omitted
Arg(args, i) == IF Len(args) >= i THEN args[i] ELSE None

\* the user name is sent in place of the group name too
get_group_samearg(svc, args) ==
    Routed(svc, "get_group", <<Arg(args, 1), Arg(args, 1)>>, TRUE)

\* the user name is not sent
get_group_nouser(svc, args) ==
    Routed(svc, "get_group", <<args[1], None>>, TRUE)

get_group(svc, args) ==
    Routed(svc, "get_group", <<args[1], Arg(args, 2)>>, TRUE)

\* the group is looked up, not created
create_group_lookup(svc, args) ==
    Routed(svc, "get_group", <<args[1], None>>, FALSE)

create_group(svc, args) ==
    Routed(svc, "create_group", <<args[1]>>, FALSE)

\* the call goes to create_group
delete_group_creates(svc, args) ==
    Routed(svc, "create_group", <<args[1]>>, FALSE)

\* the user name is not sent
delete_group_nouser(svc, args) ==
    Routed(svc, "delete_group", <<args[1], None>>, FALSE)

delete_group(svc, args) ==
    Routed(svc, "delete_group", <<args[1], Arg(args, 2)>>, FALSE)

\* the membership is queried, not added
add_user_to_group_query(svc, args) ==
    Routed(svc, "get_group", <<args[1], args[2]>>, TRUE)

add_user_to_group(svc, args) ==
    Routed(svc, "add_user_to_group", <<args[1], args[2]>>, TRUE)

get_permissions(svc, args) ==
    Routed(svc, "get_permissions", <<args[1], args[2]>>, TRUE)

add_permissions(svc, args) ==
    Routed(svc, "add_permissions", <<args[1], args[2], args[3]>>, FALSE)

delete_permissions(svc, args) ==
    Routed(svc, "delete_permissions", <<args[1], args[2], args[3]>>, FALSE)

add_user_role(svc, args) ==
    Routed(svc, "add_user_role", <<args[1], args[2]>>, FALSE)

delete_user_role(svc, args) ==
    Routed(svc, "delete_user_role", <<args[1], args[2]>>, FALSE)

get_user_roles(svc, args) ==
    Routed(svc, "get_user_roles", <<args[1]>>, TRUE)

add_user(svc, args) ==
    Routed(svc, "add_user",
           <<args[1], Arg(args, 2), Arg(args, 3), Arg(args, 4), Arg(args, 5)>>,
           FALSE)

get_user(svc, args) ==
    Routed(svc, "get_user", <<args[1]>>, TRUE)

\* the call goes to get_user
get_user_groups_user(svc, args) ==
    Routed(svc, "get_user", <<args[1]>>, TRUE)

get_user_groups(svc, args) ==
    Routed(svc, "get_user_groups", <<args[1]>>, TRUE)

delete_user(svc, args) ==
    Routed(svc, "delete_user", <<args[1]>>, FALSE)

\* keyword argument k of a call, or the default None
Kwarg(kwargs, k) ==
    IF \E i \in 1..Len(kwargs) : kwargs[i].key = k
    THEN kwargs[CHOOSE i \in 1..Len(kwargs) : kwargs[i].key = k].value
    ELSE None

\* ProjectService.list(resource=None, **kwargs)
list(svc, args, kwargs) ==
    Routed(svc, "list",
           <<IF Len(args) >= 1 THEN args[1] ELSE Kwarg(kwargs, "resource")>>,
           TRUE)

create(svc, args) ==
    Routed(svc, "create", <<args[1]>>, TRUE)

get(svc, args) ==
    Routed(svc, "get", <<args[1]>>, TRUE)

\* the new attributes are sent before the current name
update_swapped(svc, args) ==
    Routed(svc, "update", <<args[2], args[1]>>, TRUE)

update(svc, args) ==
    Routed(svc, "update", <<args[1], args[2]>>, TRUE)

delete(svc, args) ==
    Routed(svc, "delete", <<args[1]>>, FALSE)

\* the routed call of public method op
Route(svc, op, args, kwargs) ==
    CASE op = "get_group" -> get_group(svc, args)
      [] op = "create_group" -> create_group(svc, args)
      [] op = "delete_group" -> delete_group(svc, args)
      [] op = "add_user_to_group" -> add_user_to_group(svc, args)
      [] op = "get_permissions" -> get_permissions(svc, args)
      [] op = "add_permissions" -> add_permissions(svc, args)
      [] op = "delete_permissions" -> delete_permissions(svc, args)
      [] op = "add_user_role" -> add_user_role(svc, args)
      [] op = "delete_user_role" -> delete_user_role(svc, args)
      [] op = "get_user_roles" -> get_user_roles(svc, args)
      [] op = "add_user" -> add_user(svc, args)
      [] op = "get_user" -> get_user(svc, args)
      [] op = "get_user_groups" -> get_user_groups(svc, args)
      [] op = "delete_user" -> delete_user(svc, args)
      [] op = "list" -> list(svc, args, kwargs)
      [] op = "create" -> create(svc, args)
      [] op = "get" -> get(svc, args)
      [] op = "update" -> update(svc, args)
      [] op = "delete" -> delete(svc, args)

\* the keyword arguments are dropped
list_project_nokwargs(rmt, kwargs) ==
    IF rmt._project = None
    THEN [calls |-> <<>>, result |-> Raised("AttributeError")]
    ELSE [calls |-> <<[method |-> "list", args |-> <<>>, kwargs |-> NoKwargs]>>,
          result |-> Returned(None)]

\* Remote.list_project(**kwargs): the calls made on rmt._project; the outcome
\* is that of the call, or the error raised before it
list_project(rmt, kwargs) ==
    IF rmt._project = None
    THEN [calls |-> <<>>, result |-> Raised("AttributeError")]
    ELSE [calls |-> <<[method |-> "list", args |-> <<>>, kwargs |-> kwargs]>>,
          result |-> Returned(None)]

(***************************************************************************)
(* The v0.7 implementation talking to the Boss group API: the state of the *)
(* server is [groups, users, members]; a request that names a missing      *)
(* group or user is answered with an error status, raised as HTTPError.    *)
(***************************************************************************)
\* bool(value) in Python
Truthy(value) ==
    CASE value.kind = "None" -> FALSE
      [] value.kind = "bool" -> value.v
      [] OTHER -> TRUE

GroupInfo(g) == [kind |-> "group", name |-> g]

Answer(server, res) == [boss |-> server, result |-> res]

\* ProjectService_0_7.get_group
Impl_get_group(server, name, user_name) ==
    IF user_name.kind = "None"
    THEN IF name.v \in server.groups
         THEN Answer(server, Returned(GroupInfo(name.v)))
         ELSE Answer(server, Returned(Bool(FALSE)))
    ELSE IF name.v \notin server.groups \/ user_name.v \notin server.users
         THEN Answer(server, Raised("HTTPError"))
         ELSE Answer(server, Returned(Bool(<<name.v, user_name.v>> \in server.members)))

\* ProjectService_0_7.create_group
Impl_create_group(server, name) ==
    IF name.v \in server.groups
    THEN Answer(server, Raised("HTTPError"))
    ELSE Answer([server EXCEPT !.groups = @ \cup {name.v}], Returned(None))

\* ProjectService_0_7.delete_group
Impl_delete_group(server, name, user_name) ==
    IF name.v \notin server.groups
    THEN Answer(server, Raised("HTTPError"))
    ELSE IF user_name.kind = "None"
    THEN Answer([server EXCEPT !.groups = @ \ {name.v},
                               !.members = {m \in @ : m[1] # name.v}],
                Returned(None))
    ELSE IF user_name.v \notin server.users
    THEN Answer(server, Raised("HTTPError"))
    ELSE Answer([server EXCEPT !.members = @ \ {<<name.v, user_name.v>>}],
                Returned(None))

\* ProjectService_0_7.add_user_to_group
Impl_add_user_to_group(server, name, user) ==
    IF name.v \notin server.groups \/ user.v \notin server.users
    THEN Answer(server, Raised("HTTPError"))
    ELSE Answer([server EXCEPT !.members = @ \cup {<<name.v, user.v>>}],
                Returned(None))

\* ProjectService_0_7.add_user: the account is created; the group API knows
\* the user (server.users) only once the user has logged in
Impl_add_user(server, user) ==
    IF user.v \in server.accounts
    THEN Answer(server, Raised("HTTPError"))
    ELSE Answer([server EXCEPT !.accounts = @ \cup {user.v}], Returned(None))

\* ProjectService_0_7.delete_user
Impl_delete_user(server, user) ==
    IF user.v \notin server.accounts
    THEN Answer(server, Raised("HTTPError"))
    ELSE Answer([server EXCEPT !.accounts = @ \ {user.v},
                               !.users = @ \ {user.v},
                               !.members = {m \in @ : m[2] # user.v}],
                Returned(None))

\* the first login of an account makes the user known to the group API
ServerLogin(server, user) ==
    IF user.v \in server.accounts
    THEN [server EXCEPT !.users = @ \cup {user.v}]
    ELSE server

\* the name of the group the server creates for a user: user + '-primary'
PrimaryGroup(u) ==
    CASE u = "bossadmin" -> "bossadmin-primary"
      [] u = "foo" -> "foo-primary"
      [] u = "johndoeski" -> "johndoeski-primary"

RECURSIVE SetToSeq(_)
SetToSeq(S) ==
    IF S = {} THEN <<>>
    ELSE LET x == CHOOSE y \in S : TRUE IN <<x>> \o SetToSeq(S \ {x})

ListOf(q) == [kind |-> "list", v |-> q]

\* ProjectService_0_7.get_user_groups: the public group, the user's primary
\* group and the groups the user was added to
Impl_get_user_groups(server, user) ==
    IF user.v \notin server.users
    THEN Answer(server, Raised("HTTPError"))
    ELSE Answer(server,
                Returned(ListOf(SetToSeq(
                    {"bosspublic", PrimaryGroup(user.v)}
                    \cup {m[1] : m \in {x \in server.members : x[2] = user.v}}))))

\* the implementation executing routed call c; reply is the answer of the
\* server to a request that does not concern groups
Execute(server, c, reply) ==
    CASE c.method = "get_group" -> Impl_get_group(server, c.args[1], c.args[2])
      [] c.method = "create_group" -> Impl_create_group(server, c.args[1])
      [] c.method = "delete_group" -> Impl_delete_group(server, c.args[1], c.args[2])
      [] c.method = "add_user_to_group" ->
            Impl_add_user_to_group(server, c.args[1], c.args[2])
      [] c.method = "add_user" -> Impl_add_user(server, c.args[1])
      [] c.method = "delete_user" -> Impl_delete_user(server, c.args[1])
      [] c.method = "get_user_groups" -> Impl_get_user_groups(server, c.args[1])
      [] OTHER -> Answer(server, reply)

\* what the caller of the public method gets
Outcome(c, res) ==
    IF res.exc # "" \/ c.returns THEN res ELSE Returned(None)

(***************************************************************************)
(* What the caller has seen so far: for every group name whether its last  *)
(* successful create_group / delete_group was a create, and the pairs      *)
(* (group, user) added by a successful add_user_to_group and not removed   *)
(* since by a successful delete_group or delete_user; the users created by *)
(* a successful add_user and those that logged in, until deleted.          *)
(***************************************************************************)
NoHistory(names) ==
    [groups |-> [g \in names |-> "never"], members |-> {}, added |-> {},
     loggedIn |-> {}]

Record(h, op, args, ok) ==
    IF ~ok THEN h
    ELSE CASE op = "create_group" ->
                [h EXCEPT !.groups[args[1].v] =
                    IF @ = "never" THEN "created" ELSE "recreated"]
           [] op = "delete_group" /\ Arg(args, 2).kind = "None" ->
                [h EXCEPT !.groups[args[1].v] = "deleted",
                          !.members = {m \in @ : m[1] # args[1].v}]
           [] op = "delete_group" /\ Arg(args, 2).kind # "None" ->
                [h EXCEPT !.members = @ \ {<<args[1].v, args[2].v>>}]
           [] op = "add_user_to_group" ->
                [h EXCEPT !.members = @ \cup {<<args[1].v, args[2].v>>}]
           [] op = "delete_user" ->
                [h EXCEPT !.members = {m \in @ : m[2] # args[1].v},
                          !.added = @ \ {args[1].v},
                          !.loggedIn = @ \ {args[1].v}]
           [] op = "add_user" -> [h EXCEPT !.added = @ \cup {args[1].v}]
           [] op = "login_user" -> [h EXCEPT !.loggedIn = @ \cup {args[1].v}]
           [] OTHER -> h

(***************************************************************************)
(* ndio.remote.m2g (m2g.py): set_default_email, build_graph,               *)
(* compute_invariants and the two upload routines.  The methods are taken  *)
(* as written: a name that the module never binds raises NameError where   *)
(* the statement using it is executed.  (The defaults email=self.email and *)
(* fiber_file=DEFAULT_FIBER_FILE cannot be evaluated, so every call of the *)
(* model passes email and fiber_file explicitly.)                          *)
(***************************************************************************)
\* the names bound at module level (imports, constants, classes)
ModuleNames ==
    {"zipfile", "tempfile", "inspect", "urllib2", "threading", "os", "Remote",
     "ramon", "DEFAULT_HOSTNAME", "DEFAULT_PROTOCOL", "DEFAULT_EMAIL",
     "Invariants", "InputFormats", "m2g", "RemoteDataUploadError",
     "RemoteDataNotFoundError", "RemoteError"}

\* whether name can be read in a function with the given local names
Bound(name, locals) == name \in locals \cup ModuleNames

DEFAULT_EMAIL == <<>>

\* Invariants.ALL
InvariantsALL == <<"ss1", "tri", "cc", "mad", "deg", "eig">>

\* InputFormats._any
FormatsAny ==
    <<"graphml", "ncol", "edgelist", "lgl", "pajek", "graphdb", "numpy", "mat">>

SMALL == <<"s">>
BIG == <<"b">>

\* the local files that can be read
UploadFiles == {"fibers.dat", "atlas.nii", "graph.graphml"}

\* any email is accepted
set_default_email_unchecked(email, new) ==
    [email |-> new, result |-> Returned(None)]

\* m2g.set_default_email: the stored email afterwards and the outcome
set_default_email(email, new) ==
    IF ~InSeq("@", new)
    THEN [email |-> email, result |-> Raised("ValueError")]
    ELSE [email |-> new, result |-> Returned(None)]

\* "/".join(parts)
RECURSIVE SlashJoin(_)
SlashJoin(parts) ==
    IF parts = <<>> THEN <<>>
    ELSE IF Len(parts) = 1 THEN parts[1]
    ELSE parts[1] \o <<"/">> \o SlashJoin(Tail(parts))

Chars(tokens) == [i \in 1..Len(tokens) |-> <<tokens[i]>>]

\* "buildgraph/{}/{}/{}/{}/{}/{}/{}/{}/".format(...)
BuildGraphUrl(a) ==
    <<"buildgraph", "/">> \o a.project \o <<"/">> \o a.site \o <<"/">>
        \o a.subject \o <<"/">> \o a.session \o <<"/">> \o a.scan \o <<"/">>
        \o a.size \o <<"/">> \o a.email \o <<"/">>
        \o SlashJoin(Chars(a.invariants)) \o <<"/">>

\* "/graphupload/{}/{}/{}/".format(...)
GraphUploadUrl(a) ==
    <<"/", "graphupload", "/">> \o a.email \o <<"/">> \o <<a.input_format>>
        \o <<"/">> \o SlashJoin(Chars(a.invariants)) \o <<"/">>

\* the checks of a callback (lines 151-155 and 250-254): the error raised
CallbackError(a) ==
    IF a.use_threads /\ a.callback.kind # "None"
    THEN IF a.callback.kind # "function" THEN "ValueError"
         ELSE IF a.callback.nargs # 1 THEN "ValueError"
         ELSE ""
    ELSE ""

\* a finished run of an upload routine: its outcome, the requests it sent
\* (each with the state of the archive when tmpfile.read() was called), the
\* arguments its callback was called with and the files it zipped
Ran(result, requests, callbacks, zipped) ==
    [result |-> result, requests |-> requests, callbacks |-> callbacks,
     zipped |-> zipped]

Request(url, closed, flushed, rewound) ==
    [url |-> url, closed |-> closed, flushed |-> flushed, rewound |-> rewound]

Response(reply) == [kind |-> "response", body |-> reply.value]

\* the second try block of the upload routines: send the archive, then call
\* the callback with cbarg or return response.read()
Upload(req, callback, reply, cbarg, zipped) ==
    IF reply.exc # ""
    THEN Ran(Raised("RemoteDataUploadError"), <<req>>, <<>>, zipped)
    ELSE IF callback.kind # "None"
    THEN Ran(Returned(None), <<req>>, <<cbarg>>, zipped)
    ELSE Ran(Returned(reply.value), <<req>>, <<>>, zipped)

\* m2g._run_build_graph(url, fiber_file, atlas_file=None, callback=None);
\* reply is the answer of the server to the request
_run_build_graph(url, fiber_file, atlas_file, callback, reply) ==
    LET locals == {"self", "url", "fiber_file", "atlas_file", "callback",
                   "tmpfile", "zfile"}
    IN
    IF ~Bound("file_file", locals)
    THEN \* zfile.write(file_file): NameError, turned into ValueError
         Ran(Raised("ValueError"), <<>>, <<>>, {})
    ELSE IF fiber_file \notin UploadFiles
    THEN Ran(Raised("ValueError"), <<>>, <<>>, {})
    ELSE IF atlas_file.kind # "None"
    THEN IF atlas_file.v \notin UploadFiles
         THEN Ran(Raised("ValueError"), <<>>, <<>>, {fiber_file})
         ELSE Upload(Request(url, TRUE, TRUE, TRUE), callback, reply,
                     Response(reply), {fiber_file, atlas_file.v})
    ELSE \* close, flush and seek are inside the if
         Upload(Request(url, FALSE, FALSE, FALSE), callback, reply,
                Response(reply), {fiber_file})

\* m2g._run_compute_invariants(url, graph_file, callback=None)
_run_compute_invariants(url, graph_file, callback, reply) ==
    IF graph_file \notin UploadFiles
    THEN Ran(Raised("ValueError"), <<>>, <<>>, {})
    ELSE Upload(Request(url, TRUE, TRUE, TRUE), callback, reply, reply.value,
                {graph_file})

NoThread == [pc |-> "none"]

Started(fn, url, file, atlas, callback) ==
    [pc |-> "started", fn |-> fn, url |-> url, file |-> file, atlas |-> atlas,
     callback |-> callback]

\* what a call of build_graph or compute_invariants leaves behind: the
\* outcome for the caller, the thread it started and the foreground run
Called(result, thread, run) == [result |-> result, thread |-> thread, run |-> run]

NoRun == Ran(Returned(None), <<>>, <<>>, {})

Subset(q, all) == \A i \in 1..Len(q) : InSeq(q[i], all)

\* the thread is started before the arguments are checked
build_graph_unchecked(a, reply) ==
    IF a.use_threads
    THEN Called(Returned(None),
                Started("_run_build_graph", BuildGraphUrl(a), a.fiber_file,
                        a.atlas_file, a.callback),
                NoRun)
    ELSE LET r == _run_build_graph(BuildGraphUrl(a), a.fiber_file, a.atlas_file,
                                   None, reply)
         IN Called(r.result, NoThread, r)

\* m2g.build_graph(project, site, subject, session, scan, size, email,
\* invariants, fiber_file, atlas_file, use_threads, callback)
build_graph(a, reply) ==
    IF ~Subset(a.invariants, InvariantsALL)
    THEN Called(Raised("ValueError"), NoThread, NoRun)
    ELSE IF CallbackError(a) # ""
    THEN Called(Raised(CallbackError(a)), NoThread, NoRun)
    ELSE IF a.size \notin {BIG, SMALL}
    THEN Called(Raised("ValueError"), NoThread, NoRun)
    ELSE IF InSeq(" ", BuildGraphUrl(a))
    THEN Called(Raised("ValueError"), NoThread, NoRun)
    ELSE IF a.use_threads
    THEN Called(Returned(None),
                Started("_run_build_graph", BuildGraphUrl(a), a.fiber_file,
                        a.atlas_file, a.callback),
                NoRun)
    ELSE LET r == _run_build_graph(BuildGraphUrl(a), a.fiber_file, a.atlas_file,
                                   None, reply)
         IN Called(r.result, NoThread, r)

\* m2g.compute_invariants(graph_file, input_format, invariants, email,
\* use_threads, callback)
compute_invariants(a, reply) ==
    LET locals == {"self", "graph_file", "input_format", "invariants", "email",
                   "use_threads", "callback", "url", "upload_thread"}
    IN
    IF ~Bound("GraphFormats", locals)
    THEN \* the class is named InputFormats
         Called(Raised("NameError"), NoThread, NoRun)
    ELSE IF ~InSeq(a.input_format, FormatsAny)
    THEN Called(Raised("ValueError"), NoThread, NoRun)
    ELSE IF ~Subset(a.invariants, InvariantsALL)
    THEN Called(Raised("ValueError"), NoThread, NoRun)
    ELSE IF CallbackError(a) # ""
    THEN Called(Raised(CallbackError(a)), NoThread, NoRun)
    ELSE IF InSeq(" ", GraphUploadUrl(a))
    THEN Called(Raised("ValueError"), NoThread, NoRun)
    ELSE IF a.graph_file \notin UploadFiles
    THEN Called(Raised("ValueError"), NoThread, NoRun)
    ELSE IF a.use_threads
    THEN Called(Returned(None),
                Started("_run_compute_invariants", GraphUploadUrl(a),
                        a.graph_file, None, a.callback),
                NoRun)
    ELSE IF ~Bound("fiber_file", locals)
    THEN Called(Raised("NameError"), NoThread, NoRun)
    ELSE LET r == _run_compute_invariants(GraphUploadUrl(a), a.graph_file,
                                          None, reply)
         IN Called(r.result, NoThread, r)

\* the body of a started thread
ThreadBody(t, reply) ==
    IF t.fn = "_run_build_graph"
    THEN _run_build_graph(t.url, t.file, t.atlas, t.callback, reply)
    ELSE _run_compute_invariants(t.url, t.file, t.callback, reply)

(***************************************************************************)
(* The group integration tests (int_test_group_v0_7.py).  rmt is a         *)
(* BossRemote, whose group and user methods hand the call to its project   *)
(* service; a test method is the sequence of its calls, each with what the *)
(* test expects of it, and stops at the first expectation that fails.      *)
(***************************************************************************)
create_grp_name == "newgrp"
existing_grp_name == "grp"
user_name == "bossadmin"
create_user == "johndoeski"

TestMethods ==
    {"test_create_group", "test_get_group", "test_get_group_doesnt_exist",
     "test_delete_group", "test_delete_group_doesnt_exist",
     "test_add_user_to_group", "test_add_user_to_group_group_doesnt_exist",
     "test_group_membership", "test_get_group_user_doesnt_exist",
     "test_delete_group_user", "test_delete_group_user_doesnt_exist",
     "test_get_groups", "test_get_groups_invalid_user"}

\* a call of rmt and the expectation: "returns" (no exception), "true" /
\* "false" (assertTrue / assertFalse), "raises" (assertRaises(HTTPError)),
\* "expected" (assertCountEqual with the expected groups), "any" (an
\* HTTPError is passed over)
Step(op, args, expect) == [op |-> op, args |-> args, expect |-> expect]

ExpectedGroups == <<"bosspublic", PrimaryGroup(create_user), existing_grp_name>>

TestBody(t) ==
    CASE t = "test_create_group" ->
            <<Step("create_group", <<Name(create_grp_name)>>, "returns")>>
      [] t = "test_get_group" ->
            <<Step("get_group", <<Name(existing_grp_name)>>, "true")>>
      [] t = "test_get_group_doesnt_exist" ->
            <<Step("get_group", <<Name("foo")>>, "false")>>
      [] t = "test_delete_group" ->
            <<Step("get_group", <<Name(existing_grp_name)>>, "true"),
              Step("delete_group", <<Name(existing_grp_name)>>, "returns"),
              Step("get_group", <<Name(existing_grp_name)>>, "false"),
              Step("create_group", <<Name(existing_grp_name)>>, "returns"),
              Step("get_group", <<Name(existing_grp_name)>>, "true")>>
      [] t = "test_delete_group_doesnt_exist" ->
            <<Step("delete_group", <<Name("foo")>>, "raises")>>
      [] t = "test_add_user_to_group" ->
            <<Step("add_user_to_group",
                   <<Name(existing_grp_name), Name(user_name)>>, "returns")>>
      [] t = "test_add_user_to_group_group_doesnt_exist" ->
            <<Step("add_user_to_group", <<Name("foo"), Name(user_name)>>,
                   "raises")>>
      [] t = "test_group_membership" ->
            <<Step("get_group", <<Name(existing_grp_name), Name(user_name)>>,
                   "false"),
              Step("add_user_to_group",
                   <<Name(existing_grp_name), Name(user_name)>>, "returns"),
              Step("get_group", <<Name(existing_grp_name), Name(user_name)>>,
                   "true")>>
      [] t = "test_get_group_user_doesnt_exist" ->
            <<Step("get_group", <<Name(existing_grp_name), Name("foo")>>,
                   "raises")>>
      [] t = "test_delete_group_user" ->
            <<Step("delete_group", <<Name(existing_grp_name), Name(user_name)>>,
                   "returns")>>
      [] t = "test_delete_group_user_doesnt_exist" ->
            <<Step("delete_group", <<Name(existing_grp_name), Name("foo")>>,
                   "raises")>>
      [] t = "test_get_groups" ->
            <<Step("add_user",
                   <<Name(create_user), Name("John"), Name("Doeski"),
                     Name("jdoe@me.com"), Name("myPassW0rd")>>, "returns"),
              Step("login_user", <<Name(create_user)>>, "returns"),
              Step("add_user_to_group",
                   <<Name(existing_grp_name), Name(create_user)>>, "returns"),
              Step("get_user_groups", <<Name(create_user)>>, "expected")>>
      [] t = "test_get_groups_invalid_user" ->
            <<Step("get_user_groups", <<Name("foo")>>, "raises")>>

\* the calls of setUpClass and of tearDownClass
SetUpBody == <<Step("create_group", <<Name(existing_grp_name)>>, "returns")>>

TearDownBody ==
    <<Step("delete_group", <<Name(create_grp_name)>>, "any"),
      Step("delete_group", <<Name(existing_grp_name)>>, "any"),
      Step("delete_user", <<Name(create_user)>>, "any")>>

\* the number of times x occurs in sequence q
Count(x, q) == Cardinality({i \in 1..Len(q) : q[i] = x})

\* six.assertCountEqual
CountEqual(p, q) ==
    /\ Len(p) = Len(q)
    /\ \A i \in 1..Len(p) : Count(p[i], p) = Count(p[i], q)

\* whether outcome out meets the expectation
Holds(expect, out) ==
    CASE expect = "returns" -> out.exc = ""
      [] expect = "true" -> out.exc = "" /\ Truthy(out.value)
      [] expect = "false" -> out.exc = "" /\ ~Truthy(out.value)
      [] expect = "raises" -> out.exc = "HTTPError"
      [] expect = "expected" ->
            /\ out.exc = ""
            /\ out.value.kind = "list"
            /\ CountEqual(ExpectedGroups, out.value.v)
      [] expect = "any" -> out.exc \in {"", "HTTPError"}

\* the steps from the i-th on, run with service svc against the server: the
\* server afterwards, the step that failed (0 when none did), what it
\* raised, and the calls routed to the implementation
RECURSIVE RunSteps(_, _, _, _)
RunSteps(svc, server, steps, i) ==
    IF i > Len(steps)
    THEN [boss |-> server, failedAt |-> 0, exc |-> "", calls |-> <<>>]
    ELSE IF steps[i].op = "login_user"
    THEN RunSteps(svc, ServerLogin(server, steps[i].args[1]), steps, i + 1)
    ELSE LET c == Route(svc, steps[i].op, steps[i].args, NoKwargs)
             a == Execute(server, c, Returned(None))
             out == Outcome(c, a.result)
         IN IF Holds(steps[i].expect, out)
            THEN LET rest == RunSteps(svc, a.boss, steps, i + 1)
                 IN [rest EXCEPT !.calls = <<c>> \o @]
            ELSE [boss |-> a.boss, failedAt |-> i,
                  exc |-> IF out.exc # "" THEN out.exc ELSE "AssertionError",
                  calls |-> <<c>>]

(***************************************************************************)
(* Inputs of the model.                                                    *)
(***************************************************************************)
Alphabet == {"B", "=", " "}

RECURSIVE StringsOfLen(_)
StringsOfLen(n) ==
    IF n = 0 THEN {<<>>}
    ELSE {Append(s, c) : s \in StringsOfLen(n - 1), c \in Alphabet}

Strings == UNION {StringsOfLen(n) : n \in 0..MaxStrLen}

DictKeys == {StrVal(s) : s \in Strings}
DictValues == {StrVal(s) : s \in Strings} \cup {IntVal(12), None}

\* dicts as sequences of items with pairwise distinct keys, in iteration order
RECURSIVE ItemSeqs(_)
ItemSeqs(n) ==
    IF n = 0 THEN {<<>>}
    ELSE {Append(d, [key |-> k, value |-> v]) :
            d \in ItemSeqs(n - 1), k \in DictKeys, v \in DictValues}

DistinctKeys(items) ==
    \A i, j \in 1..Len(items) : items[i].key = items[j].key => i = j

Dicts ==
    {[kind |-> "dict", items |-> d] :
        d \in {x \in UNION {ItemSeqs(n) : n \in 0..MaxKeys} : DistinctKeys(x)}}

SimpleDict ==
    [kind |-> "dict",
     items |-> <<[key |-> StrVal(<<"B">>), value |-> StrVal(<<"B">>)]>>]

\* the paths that may exist, and the paths a caller may give
FsPaths == {expanduser(CONFIG_FILE), CONFIG_FILE}
PathArgs == {[kind |-> "path", v |-> p] : p \in FsPaths \cup {<<"missing.cfg">>}}

GoodText == DefaultHeader \o <<"B", " ", "=", " ", "B", "\n">>
BadText == <<"B", " ", "=", " ", "B", "\n">>

FsEntries ==
    {[kind |-> "absent", text |-> <<>>], [kind |-> "dir", text |-> <<>>],
     [kind |-> "file", text |-> GoodText], [kind |-> "file", text |-> BadText]}

CtorArgs == {None} \cup PathArgs \cup Dicts
FewCtorArgs == {None, SimpleDict}

Resources == {Resource("chan", TRUE), Resource("coll", FALSE)}
Resolutions == {IntVal(0)}
Ranges == {Rng(0, 10), Rng(10, 20)}
TimeRanges == {None, Rng(30, 40)}
DataValues == {StrVal(<<"B">>)}
VolumeReplies == {Returned(StrVal(<<"=">>)), Raised("HTTPError")}

GetCutoutArgs ==
    {<<r, n, x, y, z>> :
        r \in Resources, n \in Resolutions, x \in Ranges, y \in Ranges, z \in Ranges}
    \cup
    {<<r, n, x, y, z, t>> :
        r \in Resources, n \in Resolutions, x \in Ranges, y \in Ranges,
        z \in Ranges, t \in TimeRanges}

CreateCutoutArgs ==
    {<<r, n, x, y, z, d>> :
        r \in Resources, n \in Resolutions, x \in Ranges, y \in Ranges,
        z \in Ranges, d \in DataValues}
    \cup
    {<<r, n, x, y, z, d, t>> :
        r \in Resources, n \in Resolutions, x \in Ranges, y \in Ranges,
        z \in Ranges, d \in DataValues, t \in TimeRanges}

\* inputs of the project service
Versions == {"v0.7", "v0.8", "latest"}
GroupNames == {"grp", "foo"}
UserNames == {"bossadmin", "foo"}
InitialUsers == {"bossadmin"}
SendOpts == {Name("{}"), Name("{'verify': False}")}
ServiceReplies == {Returned(Name("data")), Raised("HTTPError")}

Groups == {Name(g) : g \in GroupNames}
Users == {Name(u) : u \in UserNames}
AResource == Resource("chan", TRUE)
Perms == [kind |-> "list", v |-> <<"read", "write">>]
Role == Name("admin")

GetGroupArgs ==
    {<<g>> : g \in Groups} \cup {<<g, u>> : g \in Groups, u \in Users \cup {None}}
CreateGroupArgs == {<<g>> : g \in Groups}
DeleteGroupArgs ==
    {<<g>> : g \in Groups} \cup {<<g, u>> : g \in Groups, u \in Users \cup {None}}
AddUserToGroupArgs == {<<g, u>> : g \in Groups, u \in Users}
AddUserArgs ==
    {<<u>> : u \in Users}
    \cup {<<u, Name("John"), Name("Doeski"), Name("jdoe@me.com"), Name("myPassW0rd")>> :
            u \in Users}
DeleteUserArgs == {<<u>> : u \in Users}
GetUserGroupsArgs == {<<u>> : u \in Users}

\* the calls of the methods that do not concern groups: [op, args, kwargs]
Invocation(op, args, kwargs) == [op |-> op, args |-> args, kwargs |-> kwargs]

OtherCalls ==
    {Invocation("get_permissions", <<Name("grp"), AResource>>, NoKwargs),
     Invocation("add_permissions", <<Name("grp"), AResource, Perms>>, NoKwargs),
     Invocation("delete_permissions", <<Name("grp"), AResource, Perms>>, NoKwargs),
     Invocation("add_user_role", <<Name("bossadmin"), Role>>, NoKwargs),
     Invocation("delete_user_role", <<Name("bossadmin"), Role>>, NoKwargs),
     Invocation("get_user_roles", <<Name("bossadmin")>>, NoKwargs),
     Invocation("get_user", <<Name("bossadmin")>>, NoKwargs),
     Invocation("create", <<AResource>>, NoKwargs),
     Invocation("get", <<AResource>>, NoKwargs),
     Invocation("update", <<Name("chan"), AResource>>, NoKwargs),
     Invocation("delete", <<AResource>>, NoKwargs)}

ListCalls ==
    {Invocation("list", <<>>, NoKwargs),
     Invocation("list", <<AResource>>, NoKwargs),
     Invocation("list", <<>>, <<[key |-> "resource", value |-> AResource]>>),
     Invocation("list", <<>>, <<[key |-> "limit", value |-> IntVal(10)]>>),
     Invocation("list", <<>>, <<[key |-> "resource", value |-> AResource],
                                [key |-> "limit", value |-> IntVal(10)]>>)}

ListKwargs ==
    {NoKwargs,
     <<[key |-> "resource", value |-> AResource]>>,
     <<[key |-> "limit", value |-> IntVal(10)]>>,
     <<[key |-> "resource", value |-> AResource],
       [key |-> "limit", value |-> IntVal(10)]>>,
     <<[key |-> "offset", value |-> IntVal(0)],
       [key |-> "resource", value |-> Resource("coll", FALSE)]>>}

\* m2g: emails, URL arguments, files, callbacks and answers of the server
Emails == {<<"a", "@", "b">>, <<"a">>, <<>>, <<"@">>}

Function(nargs) == [kind |-> "function", nargs |-> nargs]
Callbacks == {None, [kind |-> "object"], Function(1), Function(2)}

Atlases == {None, Name("atlas.nii"), Name("nofile.nii")}

BaseBuild ==
    [project |-> <<"p">>, site |-> <<"s">>, subject |-> <<"u">>,
     session |-> <<"e">>, scan |-> <<"c">>, size |-> BIG,
     email |-> <<"a", "@", "b">>, invariants |-> <<"ss1", "tri">>,
     fiber_file |-> "fibers.dat", atlas_file |-> None, use_threads |-> FALSE,
     callback |-> None]

\* the base call and the calls that differ from it in one argument
BuildVariants ==
    {BaseBuild,
     [BaseBuild EXCEPT !.project = <<"p", " ">>],
     [BaseBuild EXCEPT !.site = <<" ", "s">>],
     [BaseBuild EXCEPT !.subject = <<"u", " ", "u">>],
     [BaseBuild EXCEPT !.session = <<" ">>],
     [BaseBuild EXCEPT !.scan = <<"c", " ">>],
     [BaseBuild EXCEPT !.email = <<"a", " ", "@", "b">>],
     [BaseBuild EXCEPT !.size = SMALL],
     [BaseBuild EXCEPT !.size = <<"x">>],
     [BaseBuild EXCEPT !.invariants = InvariantsALL],
     [BaseBuild EXCEPT !.invariants = <<"ss1", "xx">>],
     [BaseBuild EXCEPT !.fiber_file = "nofile.dat"]}

BuildGraphArgs ==
    {[v EXCEPT !.atlas_file = at, !.use_threads = th, !.callback = cb] :
        v \in BuildVariants, at \in Atlases, th \in BOOLEAN, cb \in Callbacks}

ComputeInvariantsArgs ==
    [graph_file : {"graph.graphml", "nofile.graphml"},
     input_format : {"graphml", "xml"},
     invariants : {<<"ss1", "tri">>, <<"ss1", "xx">>},
     email : {<<"a", "@", "b">>, <<"a", " ", "@", "b">>},
     use_threads : BOOLEAN,
     callback : Callbacks]

M2gReplies == {Returned(StrVal(<<"o", "k">>)), Raised("URLError")}

(***************************************************************************)
(* State.                                                                  *)
(***************************************************************************)
VARIABLES
    fs,           \* the file system: path -> [kind, text]
    remote,       \* the Remote object
    call,         \* the operation the caller invoked last: [op, args, kwargs]
    result,       \* its outcome: [exc, value]
    volumeCalls,  \* the calls it made on the volume service
    ps,           \* the ProjectService object
    boss,         \* the Boss server: [groups, users, members]
    serviceCalls, \* the calls the last operation made on ps.service
    seen,         \* the create / delete / add history the caller has seen
    projectCalls, \* the calls the last list_project made on remote._project
    suite,        \* the run of the group integration tests
    m2g           \* the m2g object, its upload thread and what the last
                  \* call sent: [email, thread, reply, outcome, requests,
                  \* callbacks, zipped]

remoteVars == <<fs, remote, volumeCalls>>
projectVars == <<ps, boss, serviceCalls, seen>>
m2gVars == <<m2g>>
listVars == <<projectCalls>>
suiteVars == <<suite>>
vars ==
    <<fs, remote, call, result, volumeCalls, ps, boss, serviceCalls, seen,
      projectCalls, suite, m2g>>

NoCall == Invocation("", <<>>, NoKwargs)

\* the test class before setUpClass
NotStarted ==
    [phase |-> "new", ran |-> {}, last |-> "", groupAtStart |-> FALSE,
     memberAtStart |-> FALSE, failedAt |-> 0]

\* m2g(hostname, protocol, email): nothing uploaded, no thread
NewM2g(email) ==
    [email |-> email, thread |-> NoThread, reply |-> Returned(None),
     outcome |-> Returned(None),
     requests |-> <<>>, callbacks |-> <<>>, zipped |-> {}]

Init ==
    /\ fs \in [FsPaths -> FsEntries]
    /\ remote = NewRemote
    /\ call = NoCall
    /\ result = Returned(None)
    /\ volumeCalls = <<>>
    /\ ps = NewService
    /\ boss = [groups |-> {}, accounts |-> InitialUsers, users |-> InitialUsers,
               members |-> {}]
    /\ serviceCalls = <<>>
    /\ seen = NoHistory(GroupNames)
    /\ m2g = NewM2g(DEFAULT_EMAIL)
    /\ projectCalls = <<>>
    /\ suite = NotStarted

\* rmt = Remote(arg): the object is constructed once
Construct(arg) ==
    LET r == RemoteInit(fs, arg) IN
    /\ remote = NewRemote
    /\ remote' = r
    /\ call' = Invocation("Remote", <<arg>>, NoKwargs)
    /\ result' = IF r.exc # "" THEN Raised(r.exc) ELSE Returned(None)
    /\ volumeCalls' = <<>>
    /\ UNCHANGED <<fs, m2gVars, listVars, suiteVars, projectVars>>

\* the constructor of a concrete remote stores its service objects
InstallServices ==
    /\ remote.constructed
    /\ remote._volume = None
    /\ remote' = [remote EXCEPT !._volume = VolumeService,
                                !._project = ProjectHandle]
    /\ call' = Invocation("install", <<>>, NoKwargs)
    /\ result' = Returned(None)
    /\ volumeCalls' = <<>>
    /\ UNCHANGED <<fs, m2gVars, listVars, suiteVars, projectVars>>

\* rmt.get_cutout(*args)
GetCutout(args, reply) ==
    LET r == get_cutout(remote, args, reply) IN
    /\ remote.constructed
    /\ call' = Invocation("get_cutout", args, NoKwargs)
    /\ result' = r.result
    /\ volumeCalls' = r.calls
    /\ UNCHANGED <<fs, m2gVars, listVars, suiteVars, remote, projectVars>>

\* rmt.create_cutout(*args)
CreateCutout(args, reply) ==
    LET r == create_cutout(remote, args, reply) IN
    /\ remote.constructed
    /\ call' = Invocation("create_cutout", args, NoKwargs)
    /\ result' = r.result
    /\ volumeCalls' = r.calls
    /\ UNCHANGED <<fs, m2gVars, listVars, suiteVars, remote, projectVars>>

\* construction of a Remote from every kind of argument
NextConfig == \E arg \in CtorArgs : Construct(arg)

SpecConfig == Init /\ [][NextConfig]_vars

\* a constructed Remote serving cutout requests
NextCutout ==
    \/ \E arg \in FewCtorArgs : Construct(arg)
    \/ InstallServices
    \/ \E args \in GetCutoutArgs, reply \in VolumeReplies : GetCutout(args, reply)
    \/ \E args \in CreateCutoutArgs, reply \in VolumeReplies : CreateCutout(args, reply)

SpecCutout == Init /\ [][NextCutout]_vars

\* svc = ProjectService(base_url, version): the object is constructed once
ConstructService(version) ==
    LET r == ProjectServiceInit(Name("api.boss.io"), version) IN
    /\ ps = NewService
    /\ ps' = r.svc
    /\ call' = Invocation("ProjectService", <<Name("api.boss.io"), Name(version)>>,
                          NoKwargs)
    /\ result' = r.result
    /\ serviceCalls' = <<>>
    /\ UNCHANGED <<remoteVars, m2gVars, listVars, suiteVars, boss, seen>>

\* svc.session_send_opts = opts
SetSendOpts(opts) ==
    /\ ps.constructed
    /\ ps' = [ps EXCEPT !.session_send_opts = opts]
    /\ call' = Invocation("session_send_opts", <<opts>>, NoKwargs)
    /\ result' = Returned(None)
    /\ serviceCalls' = <<>>
    /\ UNCHANGED <<remoteVars, m2gVars, listVars, suiteVars, boss, seen>>

\* svc.op(*args, **kwargs): the method routes the call to ps.service, which
\* executes it against the server
Invoke(op, args, kwargs, reply) ==
    LET c == Route(ps, op, args, kwargs)
        a == Execute(boss, c, reply)
        out == Outcome(c, a.result)
    IN
    /\ ps.constructed
    /\ call' = Invocation(op, args, kwargs)
    /\ serviceCalls' = <<c>>
    /\ boss' = a.boss
    /\ result' = out
    /\ seen' = Record(seen, op, args, out.exc = "")
    /\ UNCHANGED <<remoteVars, m2gVars, listVars, suiteVars, ps>>

GetGroup(args) == Invoke("get_group", args, NoKwargs, Returned(None))
CreateGroup(args) == Invoke("create_group", args, NoKwargs, Returned(None))
DeleteGroup(args) == Invoke("delete_group", args, NoKwargs, Returned(None))
AddUserToGroup(args) == Invoke("add_user_to_group", args, NoKwargs, Returned(None))
AddUser(args) == Invoke("add_user", args, NoKwargs, Returned(None))
DeleteUser(args) == Invoke("delete_user", args, NoKwargs, Returned(None))
GetUserGroups(args) ==
    Invoke("get_user_groups", args, NoKwargs, Returned(Name("data")))

\* the user logs in to the API with a bearer token (login_user of the tests)
Login(user) ==
    /\ ps.constructed
    /\ user.v \in boss.accounts
    /\ boss' = ServerLogin(boss, user)
    /\ call' = Invocation("login_user", <<user>>, NoKwargs)
    /\ result' = Returned(None)
    /\ serviceCalls' = <<>>
    /\ seen' = Record(seen, "login_user", <<user>>, TRUE)
    /\ UNCHANGED <<remoteVars, m2gVars, listVars, suiteVars, ps>>
List(c, reply) == Invoke("list", c.args, c.kwargs, reply)
Other(c, reply) == Invoke(c.op, c.args, c.kwargs, reply)

\* a ProjectService in use against a Boss server
NextProject ==
    \/ \E version \in Versions : ConstructService(version)
    \/ \E opts \in SendOpts : SetSendOpts(opts)
    \/ \E args \in GetGroupArgs : GetGroup(args)
    \/ \E args \in CreateGroupArgs : CreateGroup(args)
    \/ \E args \in DeleteGroupArgs : DeleteGroup(args)
    \/ \E args \in AddUserToGroupArgs : AddUserToGroup(args)
    \/ \E args \in AddUserArgs : AddUser(args)
    \/ \E args \in DeleteUserArgs : DeleteUser(args)
    \/ \E args \in GetUserGroupsArgs : GetUserGroups(args)
    \/ \E user \in Users : Login(user)
    \/ \E c \in ListCalls, reply \in ServiceReplies : List(c, reply)
    \/ \E c \in OtherCalls, reply \in ServiceReplies : Other(c, reply)

\* the project service reads no file: the file system is the empty one
InitProject == Init /\ \A path \in FsPaths : fs[path].kind = "absent"

SpecProject == InitProject /\ [][NextProject]_vars

\* m.set_default_email(email)
SetDefaultEmail(email) ==
    LET r == set_default_email(m2g.email, email) IN
    /\ m2g' = [m2g EXCEPT !.email = r.email]
    /\ call' = Invocation("set_default_email", <<StrVal(email)>>, NoKwargs)
    /\ result' = r.result
    /\ UNCHANGED <<remoteVars, projectVars, listVars, suiteVars>>

\* the state of the m2g object after a call that returned r
AfterCall(r, reply) ==
    [m2g EXCEPT !.thread = r.thread, !.reply = reply, !.outcome = Returned(None),
                !.requests = r.run.requests, !.callbacks = r.run.callbacks,
                !.zipped = r.run.zipped]

\* m.build_graph(...): one upload at a time
BuildGraph(a, reply) ==
    LET r == build_graph(a, reply) IN
    /\ m2g.thread.pc # "started"
    /\ m2g' = AfterCall(r, reply)
    /\ call' = Invocation("build_graph", <<a>>, NoKwargs)
    /\ result' = r.result
    /\ UNCHANGED <<remoteVars, projectVars, listVars, suiteVars>>

\* m.compute_invariants(...)
ComputeInvariants(a, reply) ==
    LET r == compute_invariants(a, reply) IN
    /\ m2g.thread.pc # "started"
    /\ m2g' = AfterCall(r, reply)
    /\ call' = Invocation("compute_invariants", <<a>>, NoKwargs)
    /\ result' = r.result
    /\ UNCHANGED <<remoteVars, projectVars, listVars, suiteVars>>

\* the background thread runs its target to the end
ThreadRun(reply) ==
    LET r == ThreadBody(m2g.thread, reply) IN
    /\ m2g.thread.pc = "started"
    /\ m2g' = [m2g EXCEPT !.thread.pc = "done", !.reply = reply,
                          !.outcome = r.result, !.requests = r.requests,
                          !.callbacks = r.callbacks, !.zipped = r.zipped]
    /\ UNCHANGED <<call, result, remoteVars, projectVars, listVars, suiteVars>>

\* rmt.list_project(**kwargs), the project service of rmt being ps
ListProject(kwargs, reply) ==
    LET r == list_project(remote, kwargs)
        routed == [i \in 1..Len(r.calls) |->
                      Route(ps, r.calls[i].method, r.calls[i].args,
                            r.calls[i].kwargs)]
        a == IF routed = <<>> THEN Answer(boss, r.result)
             ELSE Execute(boss, routed[1], reply)
    IN
    /\ remote.constructed
    /\ ps.constructed
    /\ call' = Invocation("list_project", <<>>, kwargs)
    /\ projectCalls' = r.calls
    /\ serviceCalls' = routed
    /\ boss' = a.boss
    /\ result' = IF routed = <<>> THEN r.result ELSE Outcome(routed[1], a.result)
    /\ UNCHANGED <<remoteVars, ps, seen, m2gVars, suiteVars>>

\* a Remote whose project service is a ProjectService
NextList ==
    \/ \E arg \in FewCtorArgs : Construct(arg)
    \/ InstallServices
    \/ \E version \in Versions : ConstructService(version)
    \/ \E opts \in SendOpts : SetSendOpts(opts)
    \/ \E kwargs \in ListKwargs, reply \in ServiceReplies :
           ListProject(kwargs, reply)
    \/ \E c \in ListCalls, reply \in ServiceReplies : List(c, reply)

SpecList == InitProject /\ [][NextList]_vars

\* an m2g client in use
NextM2g ==
    \/ \E email \in Emails : SetDefaultEmail(email)
    \/ \E a \in BuildGraphArgs, reply \in M2gReplies : BuildGraph(a, reply)
    \/ \E a \in ComputeInvariantsArgs, reply \in M2gReplies :
           ComputeInvariants(a, reply)
    \/ \E reply \in M2gReplies : ThreadRun(reply)

SpecM2g == InitProject /\ [][NextM2g]_vars

\* ProjectGroupTest_v0_7.setUpClass
SetUpClass ==
    LET svc == [ProjectServiceInit(Name("api.boss.io"), "v0.7").svc
                    EXCEPT !.session_send_opts = Name("{'verify': False}")]
        run == RunSteps(svc, boss, SetUpBody, 1)
    IN
    /\ suite.phase = "new"
    /\ ps' = svc
    /\ boss' = run.boss
    /\ suite' = [NotStarted EXCEPT !.phase = "running"]
    /\ call' = Invocation("setUpClass", <<>>, NoKwargs)
    /\ result' = IF run.failedAt = 0 THEN Returned(None) ELSE Raised(run.exc)
    /\ serviceCalls' = run.calls
    /\ UNCHANGED <<remoteVars, seen, m2gVars, listVars>>

\* the runner runs a test method that has not run yet
RunTest(t) ==
    LET run == RunSteps(ps, boss, TestBody(t), 1) IN
    /\ suite.phase = "running"
    /\ t \notin suite.ran
    /\ boss' = run.boss
    /\ suite' = [phase |-> "running", ran |-> suite.ran \cup {t}, last |-> t,
                 groupAtStart |-> existing_grp_name \in boss.groups,
                 memberAtStart |->
                     <<existing_grp_name, user_name>> \in boss.members,
                 failedAt |-> run.failedAt]
    /\ call' = Invocation(t, <<>>, NoKwargs)
    /\ result' = IF run.failedAt = 0 THEN Returned(None) ELSE Raised(run.exc)
    /\ serviceCalls' = run.calls
    /\ UNCHANGED <<remoteVars, ps, seen, m2gVars, listVars>>

\* ProjectGroupTest_v0_7.tearDownClass, after the last test method
TearDownClass ==
    LET run == RunSteps(ps, boss, TearDownBody, 1) IN
    /\ suite.phase = "running"
    /\ suite.ran = TestMethods
    /\ boss' = run.boss
    /\ suite' = [suite EXCEPT !.phase = "done"]
    /\ call' = Invocation("tearDownClass", <<>>, NoKwargs)
    /\ result' = IF run.failedAt = 0 THEN Returned(None) ELSE Raised(run.exc)
    /\ serviceCalls' = run.calls
    /\ UNCHANGED <<remoteVars, ps, seen, m2gVars, listVars>>

\* the test class run by a runner that may take the methods in any order
NextTests ==
    \/ SetUpClass
    \/ \E t \in TestMethods : RunTest(t)
    \/ TearDownClass

SpecTests == InitProject /\ [][NextTests]_vars

\* the whole client
Next == NextConfig \/ NextCutout \/ NextProject \/ NextM2g \/ NextList \/ NextTests

Spec == Init /\ [][Next]_vars

(***************************************************************************)
(* Properties of Remote.                                                   *)
(***************************************************************************)
IsCutout == call.op \in {"get_cutout", "create_cutout"}

\* the positional arguments with the default of an omitted time_range
FullArity(op) == IF op = "get_cutout" THEN 6 ELSE 7

WithDefaults(c) ==
    IF Len(c.args) = FullArity(c.op) THEN c.args ELSE Append(c.args, None)

\* C1: get_cutout and create_cutout on a resource whose valid_volume() is
\* false raise RuntimeError and make no call on the volume service, whatever
\* the other arguments are.
C1_InvalidResourceRaises ==
    (IsCutout /\ ~call.args[1].valid) =>
        /\ result = Raised("RuntimeError")
        /\ volumeCalls = <<>>

C1_Witness ==
    /\ call.op = "create_cutout"
    /\ ~call.args[1].valid
    /\ Len(call.args) = 7
    /\ remote._volume = VolumeService
    /\ result.exc = "RuntimeError"

\* C2: with a valid resource (and a volume service installed) exactly one
\* call is made on the volume service, to the method of the same name, with
\* resource, resolution, x_range, y_range, z_range, (data,) time_range
\* unchanged and in that order, time_range being None when omitted; the
\* caller gets exactly what the volume service answered.
C2_ValidResourceDispatch ==
    (IsCutout /\ call.args[1].valid /\ remote._volume # None) =>
        /\ Len(volumeCalls) = 1
        /\ volumeCalls[1].method = call.op
        /\ volumeCalls[1].args = WithDefaults(call)
        /\ result = volumeCalls[1].reply

C2_Witness ==
    /\ call.op = "create_cutout"
    /\ call.args[1].valid
    /\ Len(call.args) = 6
    /\ call.args[3] # call.args[4]
    /\ Len(volumeCalls) = 1
    /\ volumeCalls[1].args[7] = None
    /\ result.exc = ""

\* the path a non-dict constructor argument stands for
DefaultConfigPath == <<"", "home", "user", ".intern", "intern.cfg">>

PathOf(arg) == IF arg.kind = "None" THEN DefaultConfigPath ELSE arg.v

ExistingFile(path) == path \in DOMAIN fs /\ fs[path].kind = "file"

\* C3: Remote(arg) with a non-dict arg that is not the path of an existing
\* file raises IOError and loads no configuration; for None the path checked
\* is the user-expanded default ~/.intern/intern.cfg.
C3_MissingFileRaises ==
    (call.op = "Remote" /\ call.args[1].kind # "dict"
        /\ ~ExistingFile(PathOf(call.args[1]))) =>
        /\ result = Raised("IOError")
        /\ ~remote.constructed
        /\ remote._config = None
        /\ remote.loads = 0
        /\ remote.checked.v = PathOf(call.args[1])

C3_Witness ==
    /\ call.op = "Remote"
    /\ call.args[1] = None
    /\ fs[CONFIG_FILE].kind = "file"
    /\ fs[DefaultConfigPath].kind = "dir"
    /\ result.exc = "IOError"

\* C4: Remote(dict) yields a configuration with a section Default that has
\* exactly one option per key of the dict, and reading option k of Default
\* gives the string form of the dict's value for k.
C4_DictRoundTrip ==
    (call.op = "Remote" /\ call.args[1].kind = "dict") =>
        /\ remote.constructed
        /\ InSeq(DefaultSect, Sections(remote._config))
        /\ Len(Options(remote._config, DefaultSect)) = Len(call.args[1].items)
        /\ \A i \in 1..Len(call.args[1].items) :
              ConfigGet(remote._config, DefaultSect,
                        Format(call.args[1].items[i].key))
                = [exc |-> "", v |-> Format(call.args[1].items[i].value)]

(***************************************************************************)
(* Properties of ProjectService and of the group API.                      *)
(***************************************************************************)
ServiceOps ==
    {"get_group", "create_group", "delete_group", "add_user_to_group",
     "get_permissions", "add_permissions", "delete_permissions",
     "add_user_role", "delete_user_role", "get_user_roles", "add_user",
     "get_user", "get_user_groups", "delete_user", "list", "create", "get",
     "update", "delete"}

IsServiceOp == call.op \in ServiceOps

\* the number of parameters each public method declares
Arity(op) ==
    CASE op \in {"get_group", "delete_group", "add_user_to_group",
                 "get_permissions", "add_user_role", "delete_user_role",
                 "update"} -> 2
      [] op \in {"add_permissions", "delete_permissions"} -> 3
      [] op = "add_user" -> 5
      [] OTHER -> 1

\* the value the caller gave (or left to default) for declared parameter i
Given(c, i) ==
    IF c.op = "list" /\ c.args = <<>> THEN Kwarg(c.kwargs, "resource")
    ELSE Arg(c.args, i)

Declared(c) == [i \in 1..Arity(c.op) |-> Given(c, i)]

IsExtra(item) == item.key # "resource"

\* the keyword arguments beyond the declared parameters
Extras(c) == SelectSeq(c.kwargs, IsExtra)

TheImpl == Name("ProjectService_0_7")

\* C5: ProjectService(base_url, version) with a version other than 'v0.7'
\* raises KeyError and gives no usable service; with 'v0.7' the
\* implementation selected is the v0.7 project service.
C5_VersionSelection ==
    (call.op = "ProjectService") =>
        IF call.args[2].v = "v0.7"
        THEN result.exc = "" /\ ps.constructed /\ ps.service = TheImpl
        ELSE result = Raised("KeyError") /\ ~ps.constructed /\ ps.service = None

C5_Witness ==
    /\ call.op = "ProjectService"
    /\ call.args[2].v = "v0.8"
    /\ result.exc = "KeyError"

\* C6 (as stated): the implementation chosen at construction never changes,
\* and every public operation makes exactly one call to its method of the
\* same name, passing the caller's arguments -- all of them, keyword
\* arguments included -- followed by url_prefix, auth, session and
\* session_send_opts.
C6_AllArgumentsForwarded ==
    /\ ps.constructed => ps.service = TheImpl
    /\ IsServiceOp =>
        /\ Len(serviceCalls) = 1
        /\ serviceCalls[1].impl = TheImpl
        /\ serviceCalls[1].method = call.op
        /\ serviceCalls[1].args = Declared(call) \o Conn(ps)
        /\ serviceCalls[1].kwargs = Extras(call)

\* C6 (amended): as above, except that list passes only its resource
\* argument: keyword arguments other than resource are dropped.
C6_DeclaredArgumentsForwarded ==
    /\ ps.constructed => ps.service = TheImpl
    /\ IsServiceOp =>
        /\ Len(serviceCalls) = 1
        /\ serviceCalls[1].impl = TheImpl
        /\ serviceCalls[1].method = call.op
        /\ serviceCalls[1].args = Declared(call) \o Conn(ps)
        /\ serviceCalls[1].kwargs = NoKwargs

C6_Witness ==
    /\ call.op = "list"
    /\ Extras(call) # <<>>
    /\ ps.session_send_opts = Name("{'verify': False}")
    /\ Len(serviceCalls) = 1
    /\ serviceCalls[1].args = <<AResource>> \o Conn(ps)

NoUser(c) == Arg(c.args, 2).kind = "None"

\* C7: group existence follows the create/delete history: get_group(name)
\* is truthy after a successful create_group(name), falsy after a later
\* successful delete_group(name), truthy again once the group is re-created.
C7_ExistenceFollowsHistory ==
    (call.op = "get_group" /\ NoUser(call)) =>
        /\ result.exc = ""
        /\ Truthy(result.value)
             <=> seen.groups[call.args[1].v] \in {"created", "recreated"}

C7_Witness ==
    /\ call.op = "get_group"
    /\ NoUser(call)
    /\ seen.groups[call.args[1].v] = "recreated"
    /\ Truthy(result.value)

\* C8: get_group(name) without a user name, for a group that does not
\* exist, returns a falsy value and does not raise.
C8_MissingGroupIsFalsy ==
    (call.op = "get_group" /\ NoUser(call) /\ call.args[1].v \notin boss.groups) =>
        /\ result.exc = ""
        /\ ~Truthy(result.value)

C8_Witness ==
    /\ call.op = "get_group"
    /\ Len(call.args) = 1
    /\ call.args[1].v = "foo"
    /\ boss.groups = {"grp"}
    /\ result = Returned(Bool(FALSE))

\* the step is delete_group(name) or add_user_to_group(name, user) on a
\* group that does not exist when the call is made
OnMissingGroup ==
    /\ \/ call'.op = "delete_group" /\ NoUser(call')
       \/ call'.op = "add_user_to_group"
    /\ call'.args[1].v \notin boss.groups

\* C9: delete_group(name) and add_user_to_group(name, user) on a group that
\* does not exist raise HTTPError and leave the groups and every membership
\* unchanged.
C9_MissingGroupRaises ==
    [][OnMissingGroup => (result'.exc = "HTTPError" /\ boss' = boss)]_vars

C9_Witness ==
    /\ call.op = "add_user_to_group"
    /\ call.args[1].v \notin boss.groups
    /\ result.exc = "HTTPError"
    /\ boss.members # {}

\* C10: for an existing group and an existing user, get_group(group, user)
\* is false while the user has not been added to the group and true after a
\* successful add_user_to_group(group, user).
C10_MembershipFollowsHistory ==
    (call.op = "get_group" /\ ~NoUser(call)
        /\ call.args[1].v \in boss.groups /\ call.args[2].v \in boss.users) =>
        /\ result.exc = ""
        /\ result.value = Bool(<<call.args[1].v, call.args[2].v>> \in seen.members)

C10_Witness ==
    /\ call.op = "get_group"
    /\ ~NoUser(call)
    /\ <<call.args[1].v, call.args[2].v>> \in seen.members
    /\ result = Returned(Bool(TRUE))

\* the step names a user that does not exist when the call is made:
\* get_group(group, user) or delete_group(group, user) on an existing group,
\* or get_user_groups(user)
OnMissingUser ==
    \/ /\ call'.op \in {"get_group", "delete_group"}
       /\ ~NoUser(call')
       /\ call'.args[1].v \in boss.groups
       /\ call'.args[2].v \notin boss.accounts
    \/ /\ call'.op = "get_user_groups"
       /\ call'.args[1].v \notin boss.accounts

\* C11: get_group(group, user), delete_group(group, user) on an existing
\* group and get_user_groups(user), for a user that does not exist, raise
\* HTTPError and change no group and no membership.
C11_MissingUserRaises ==
    [][OnMissingUser => (result'.exc = "HTTPError" /\ boss' = boss)]_vars

C11_Witness ==
    /\ call.op = "delete_group"
    /\ ~NoUser(call)
    /\ call.args[1].v \in boss.groups
    /\ call.args[2].v \notin boss.accounts
    /\ boss.members # {}
    /\ result.exc = "HTTPError"

Elements(q) == {q[i] : i \in 1..Len(q)}

NoDuplicates(q) == \A i, j \in 1..Len(q) : q[i] = q[j] => i = j

\* C12: for a user created with add_user who has logged in, get_user_groups
\* returns, each exactly once and in any order, 'bosspublic', the group
\* '<user>-primary' and every group the user was added to, and nothing else.
C12_UserGroups ==
    (call.op = "get_user_groups"
        /\ call.args[1].v \in seen.added /\ call.args[1].v \in seen.loggedIn) =>
        /\ result.exc = ""
        /\ result.value.kind = "list"
        /\ NoDuplicates(result.value.v)
        /\ Elements(result.value.v)
             = {"bosspublic", PrimaryGroup(call.args[1].v)}
               \cup {g \in GroupNames : <<g, call.args[1].v>> \in seen.members}

C12_Witness ==
    /\ call.op = "get_user_groups"
    /\ call.args[1].v \in seen.added
    /\ call.args[1].v \in seen.loggedIn
    /\ result.exc = ""
    /\ Len(result.value.v) = 3

\* the step is a successful delete_group(name, user_name) with a user name
RemovesMember ==
    call'.op = "delete_group" /\ ~NoUser(call') /\ result'.exc = ""

\* C13: delete_group(name, user_name) with a user name removes only that
\* user's membership of the group (the group still exists, the other
\* memberships are unchanged, get_group(name, user_name) is then false); a
\* delete_group call deletes the group only when user_name is None.
C13_OnlyMembershipRemoved ==
    [][/\ RemovesMember =>
            /\ boss'.groups = boss.groups
            /\ call'.args[1].v \in boss'.groups
            /\ boss'.members = boss.members \ {<<call'.args[1].v, call'.args[2].v>>}
            /\ Impl_get_group(boss', call'.args[1], call'.args[2]).result
                 = Returned(Bool(FALSE))
       /\ (call'.op = "delete_group" /\ boss'.groups # boss.groups) => NoUser(call')
      ]_vars

C13_Witness ==
    /\ call.op = "delete_group"
    /\ ~NoUser(call)
    /\ result.exc = ""
    /\ <<call.args[1].v, call.args[2].v>> \notin boss.members
    /\ boss.members # {}
    /\ call.args[1].v \in boss.groups

(***************************************************************************)
(* Properties of m2g.                                                      *)
(***************************************************************************)
HasChar(c, str) == \E i \in 1..Len(str) : str[i] = c

\* C14: set_default_email(email) raises ValueError and leaves the stored
\* default email unchanged when email contains no '@'; otherwise it stores
\* exactly email and returns None.
C14_SetDefaultEmail ==
    [][call'.op = "set_default_email" =>
          IF ~HasChar("@", call'.args[1].v)
          THEN result'.exc = "ValueError" /\ m2g'.email = m2g.email
          ELSE result' = Returned(None) /\ m2g'.email = call'.args[1].v]_vars

C14_Witness ==
    /\ call.op = "set_default_email"
    /\ ~HasChar("@", call.args[1].v)
    /\ result.exc = "ValueError"
    /\ HasChar("@", m2g.email)

\* an argument that is placed in the URL contains a space
SpacedArg(a) ==
    \E str \in {a.project, a.site, a.subject, a.session, a.scan, a.size, a.email} :
        HasChar(" ", str)

\* use_threads is true and the callback is not a function of one argument
BadCallback(a) ==
    /\ a.use_threads
    /\ a.callback # None
    /\ IF a.callback.kind = "function" THEN a.callback.nargs # 1 ELSE TRUE

InvalidBuild(a) ==
    \/ ~(Elements(a.invariants) \subseteq Elements(InvariantsALL))
    \/ a.size \notin {BIG, SMALL}
    \/ SpacedArg(a)
    \/ BadCallback(a)

\* C15: build_graph with an invariant outside Invariants.ALL, a size other
\* than BIG and SMALL, a space in an argument of the URL, or (with
\* use_threads) a callback that is not a function of one argument raises
\* ValueError; no thread is started, no file zipped and no request sent.
C15_InvalidBuildRaises ==
    (call.op = "build_graph" /\ InvalidBuild(call.args[1])) =>
        /\ result.exc = "ValueError"
        /\ m2g.thread = NoThread
        /\ m2g.requests = <<>>
        /\ m2g.zipped = {}
        /\ m2g.callbacks = <<>>

C15_Witness ==
    /\ call.op = "build_graph"
    /\ call.args[1].use_threads
    /\ call.args[1].callback = Function(2)
    /\ ~SpacedArg(call.args[1])
    /\ result.exc = "ValueError"
    /\ m2g.thread = NoThread
    /\ m2g.requests = <<>>

IsUpload == call.op \in {"build_graph", "compute_invariants"}

\* the files of a build_graph call can be read
ReadableBuild(a) ==
    /\ a.fiber_file \in UploadFiles
    /\ a.atlas_file # None => a.atlas_file.v \in UploadFiles

ValidBuild(a) == ~InvalidBuild(a) /\ ReadableBuild(a)

ValidCompute(a) ==
    /\ a.input_format \in Elements(FormatsAny)
    /\ Elements(a.invariants) \subseteq Elements(InvariantsALL)
    /\ ~HasChar(" ", a.email)
    /\ ~BadCallback(a)
    /\ a.graph_file \in UploadFiles

\* the arguments of the last call are valid for its method
ValidUpload ==
    IF call.op = "build_graph" THEN ValidBuild(call.args[1])
    ELSE ValidCompute(call.args[1])

\* the answer of the server as the caller or the callback may receive it
RestResults(reply) == {Response(reply), reply.value}

\* C16: build_graph and compute_invariants with use_threads and valid
\* arguments return None at once; when the thread has finished against a
\* server that answers, the callback was called exactly once with the
\* result of the REST call; without use_threads no callback is ever called.
C16_ThreadedCallback ==
    /\ (IsUpload /\ call.args[1].use_threads /\ ValidUpload) =>
           /\ result = Returned(None)
           /\ (m2g.thread.pc = "done" /\ m2g.reply.exc = ""
                   /\ call.args[1].callback # None) =>
                  /\ Len(m2g.callbacks) = 1
                  /\ m2g.callbacks[1] \in RestResults(m2g.reply)
    /\ (IsUpload /\ ~call.args[1].use_threads) => m2g.callbacks = <<>>

\* C17: build_graph and compute_invariants without use_threads and with
\* valid arguments send one request in the calling thread and return the
\* answer of the server; compute_invariants on a graph file that does not
\* exist raises ValueError and sends nothing.
C17_ForegroundUpload ==
    /\ (IsUpload /\ ~call.args[1].use_threads /\ ValidUpload) =>
           /\ m2g.thread = NoThread
           /\ Len(m2g.requests) = 1
           /\ m2g.reply.exc = "" => /\ result.exc = ""
                                    /\ result.value \in RestResults(m2g.reply)
    /\ (call.op = "compute_invariants"
            /\ call.args[1].graph_file \notin UploadFiles) =>
           /\ result.exc = "ValueError"
           /\ m2g.requests = <<>>

\* _run_build_graph has run to its end for the last call
BuildHasRun ==
    /\ call.op = "build_graph"
    /\ ValidBuild(call.args[1])
    /\ call.args[1].use_threads => m2g.thread.pc = "done"

\* C18: a run of _run_build_graph on readable files, with or without an
\* atlas file, reaches the upload, and the request body is read from an
\* archive that is closed and a temporary file that is flushed and rewound.
C18_ArchiveReadyBeforeRead ==
    BuildHasRun =>
        /\ Len(m2g.requests) = 1
        /\ m2g.requests[1].closed
        /\ m2g.requests[1].flushed
        /\ m2g.requests[1].rewound

(***************************************************************************)
(* Properties of Remote.list_project.                                      *)
(***************************************************************************)
\* C19: list_project(**kwargs) calls list on the project service with all
\* of its keyword arguments; ProjectService.list makes one call on the
\* implementation with only 'resource' (None when absent) and the
\* connection settings: the other keyword arguments are dropped.
C19_ListForwarding ==
    (call.op = "list_project" /\ remote._project # None) =>
        /\ projectCalls =
               <<[method |-> "list", args |-> <<>>, kwargs |-> call.kwargs]>>
        /\ Len(serviceCalls) = 1
        /\ serviceCalls[1].method = "list"
        /\ serviceCalls[1].args = <<Kwarg(call.kwargs, "resource")>> \o Conn(ps)
        /\ serviceCalls[1].kwargs = NoKwargs

C19_Witness ==
    /\ call.op = "list_project"
    /\ Extras(call) # <<>>
    /\ Kwarg(call.kwargs, "resource") # None
    /\ Len(projectCalls) = 1
    /\ Len(serviceCalls) = 1
    /\ result.exc = ""

(***************************************************************************)
(* Properties of the group integration tests.                              *)
(***************************************************************************)
\* C20: in every order of the test methods after setUpClass, the group
\* existing_grp_name exists when a test method starts, and
\* test_group_membership starts with bossadmin not a member of it, so that
\* its first assertion holds.
C20_OrderIndependent ==
    (suite.last # "") =>
        /\ suite.groupAtStart
        /\ (suite.last = "test_group_membership") =>
               /\ ~suite.memberAtStart
               /\ suite.failedAt # 1

====
